---- MODULE Spec2Model ----
(***************************************************************************)
(* Model of the implicit time integration loop of src/core/ode.py:         *)
(* odeint/_odeint, the bootstrap higher_order_start, the step size         *)
(* controller scale_timestep and the scheme factory.                       *)
(*                                                                         *)
(* Times and step sizes are exact decimal numbers <<n, d, e>> standing for *)
(* (n/d) * 10^e with 1 <= n/d < 10 (or <<0, 1, 0>> for zero); the rounding *)
(* of Python floats is not modelled.  The user's residual function is an   *)
(* oracle: the outcome of a Newton solve (a value, NoConvergence or        *)
(* LinAlgError) and the error norm of an LTE estimate are inputs.  The y   *)
(* values are names of the solves that produced them; no branch of the     *)
(* loop depends on them.                                                   *)
(***************************************************************************)
EXTENDS Integers, Sequences, FiniteSets, TLC

\* ------------------------------------------------------------------------
\* Bounds of the model
\* ------------------------------------------------------------------------
\* main-loop steps committed in one run
MaxSteps == 2
\* Newton-failure shrinks plus error-based rejections in one run
MaxRetries == 2
\* largest max_iter of a direct call of newton
MaxNewtonIter == 3
\* residual evaluations of one Newton solve
MaxEvaluations == 2

\* ------------------------------------------------------------------------
\* Exact decimal arithmetic
\* ------------------------------------------------------------------------
RECURSIVE GCD(_, _)
GCD(a, b) == IF b = 0 THEN a ELSE GCD(b, a % b)

RECURSIVE Pow10(_)
Pow10(k) == IF k = 0 THEN 1 ELSE 10 * Pow10(k - 1)

RECURSIVE Norm(_, _, _)
Norm(n, d, e) ==
    IF n = 0 THEN <<0, 1, 0>>
    ELSE LET g == GCD(n, d)
             n1 == n \div g
             d1 == d \div g
         IN IF n1 >= 10 * d1 THEN Norm(n1, 10 * d1, e + 1)
            ELSE IF n1 < d1 THEN Norm(10 * n1, d1, e - 1)
            ELSE <<n1, d1, e>>

Zero == <<0, 1, 0>>
IsZero(a) == a[1] = 0
\* 0.0 as a numpy.float64, which is what sp.linalg.norm returns: a Python
\* float divided by it is inf (with a warning), not a ZeroDivisionError
NumpyZero == <<0, 1, 64>>
\* the float inf
Infinity == <<1, 0, 0>>

\* a * b (inf times a positive number is inf)
RMul(a, b) ==
    LET g1 == GCD(a[1], b[2])
        g2 == GCD(b[1], a[2])
    IN IF IsZero(a) \/ IsZero(b) THEN Zero
       ELSE IF a = Infinity \/ b = Infinity THEN Infinity
       ELSE Norm((a[1] \div g1) * (b[1] \div g2),
                 (a[2] \div g2) * (b[2] \div g1), a[3] + b[3])

\* a / b, b nonzero
RDiv(a, b) == RMul(a, <<b[2], b[1], -b[3]>>)

\* numerator of a over the denominator l, at the decimal exponent lo
Aligned(a, l, lo) == a[1] * Pow10(a[3] - lo) * (l \div a[2])

\* a + b
RAdd(a, b) ==
    IF IsZero(a) THEN b
    ELSE IF IsZero(b) THEN a
    ELSE LET lo == IF a[3] < b[3] THEN a[3] ELSE b[3]
             l == (a[2] \div GCD(a[2], b[2])) * b[2]
         IN Norm(Aligned(a, l, lo) + Aligned(b, l, lo), l, lo)

\* a < b
RLess(a, b) ==
    IF IsZero(b) \/ a = Infinity THEN FALSE
    ELSE IF IsZero(a) \/ b = Infinity THEN TRUE
    ELSE \/ a[3] < b[3]
         \/ /\ a[3] = b[3]
            /\ LET g == GCD(a[2], b[2])
               IN a[1] * (b[2] \div g) < b[1] * (a[2] \div g)

\* a - b for b <= a
RSub(a, b) ==
    IF IsZero(b) THEN a
    ELSE IF a = b THEN Zero
    ELSE LET lo == IF a[3] < b[3] THEN a[3] ELSE b[3]
             l == (a[2] \div GCD(a[2], b[2])) * b[2]
         IN Norm(Aligned(a, l, lo) - Aligned(b, l, lo), l, lo)

RLeq(a, b) == ~RLess(b, a)

\* ------------------------------------------------------------------------
\* Parameters of the program
\* ------------------------------------------------------------------------
MAX_ALLOWED_DT_SCALING_FACTOR == <<3, 1, 0>>
MIN_ALLOWED_DT_SCALING_FACTOR == <<15, 2, -1>>
TIMESTEP_FAILURE_DT_SCALING_FACTOR == <<5, 1, -1>>
MIN_ALLOWED_TIMESTEP == <<1, 1, -8>>
MAX_ALLOWED_TIMESTEP == <<1, 1, 8>>
\* default step of higher_order_start
BootstrapDt == <<1, 1, -6>>

\* Python's None, for a number and for a function
None == <<>>
NoFunction == "None"

\* ------------------------------------------------------------------------
\* Scheme factory
\* ------------------------------------------------------------------------
\* residual, LTE estimator of the adaptor (None: no adaptor) and the history
\* length of the bootstrap (0: no initialisation actions) of each label
Scheme(residual, lte, n) == [residual |-> residual, lte_calculator |-> lte, n_start |-> n]

\* the keys of the method dict that 'imr w18' reads with _method_dict[...]
PredictorKeys == {"p1_points", "p1_pred", "p2_points", "p2_pred", "symbolic"}

\* the exceptions the factory raises
FactoryErrors == {"ValueError", "KeyError"}

\* method is the label of the scheme, keys the other keys of the method dict
\* (none when the method is given as a string)
_timestep_scheme_factory(label, keys) ==
    CASE label = "bdf2" -> Scheme("bdf2_residual", NoFunction, 2)
      [] label = "bdf3" -> Scheme("bdf3_residual", NoFunction, 3)
      [] label = "bdf2 mp" -> Scheme("bdf2_residual", "bdf2_mp_lte_estimate", 3)
      [] label = "bdf2 ebdf3" -> Scheme("bdf2_residual", "ebdf3_lte_estimate", 4)
      [] label = "bdf1" -> Scheme("bdf1_residual", NoFunction, 0)
      [] label = "imr" -> Scheme("imr_residual", NoFunction, 0)
      [] label = "imr ebdf3" -> Scheme("imr_residual", "ebdf3_lte_estimate", 5)
      [] label = "imr w18" ->
            IF PredictorKeys \subseteq keys
            THEN Scheme("imr_residual", "predictor_pair_lte_est", 12)
            ELSE Scheme("KeyError", NoFunction, 0)
      [] label \in {"trapezoid", "tr"} -> Scheme("TrapezoidRuleResidual", NoFunction, 2)
      [] label = "tr ab" -> Scheme("TrapezoidRuleResidual", "tr_ab_lte_estimate", 2)
      [] OTHER -> Scheme("ValueError", NoFunction, 0)

\* _method_dict.get('dydt_func'): the function the adaptor of 'tr ab' calls
dydt_func_of(keys) == IF "dydt_func" \in keys THEN "dydt_func" ELSE NoFunction

\* ------------------------------------------------------------------------
\* Step size controller
\* ------------------------------------------------------------------------
RECURSIVE RPow(_, _)
RPow(a, k) == IF k = 0 THEN <<1, 1, 0>> ELSE RMul(a, RPow(a, k - 1))

\* the scaling factors the error estimates of the model lead to
ScalingFactors == {<<5, 1, -1>>, <<15, 2, -1>>, <<1, 1, 0>>, <<3, 1, 0>>, <<4, 1, 0>>}

\* x ** (1/k) for the x the model uses
Root(x, k) == CHOOSE f \in ScalingFactors : RPow(f, k) = x

\* (target_error/error_estimate)**(1/(1 + order)); dividing None raises,
\* dividing by the Python float 0.0 raises ZeroDivisionError, which is
\* caught, and dividing by the numpy.float64 0.0 gives inf
default_dt_scaling(target_error, error_estimate, timestepper_order) ==
    IF error_estimate = Zero THEN MAX_ALLOWED_DT_SCALING_FACTOR
    ELSE IF error_estimate = NumpyZero THEN Infinity
    ELSE Root(RDiv(target_error, error_estimate), 1 + timestepper_order)

failed_timestep_scaling_min == MIN_ALLOWED_DT_SCALING_FACTOR
failed_timestep_scaling == TIMESTEP_FAILURE_DT_SCALING_FACTOR

Outcome(kind, dt) == [kind |-> kind, dt |-> dt]

\* scale_timestep without the exemption of the failure scaling from the
\* rejection test
scale_timestep_no_exemption(dt, target_error, error_norm, order, scaling_function) ==
    LET scaling_factor ==
            IF scaling_function = "failed_timestep_scaling"
            THEN failed_timestep_scaling
            ELSE default_dt_scaling(target_error, error_norm, order)
        new_dt == RMul(scaling_factor, dt)
    IN IF scaling_function = "default_dt_scaling" /\ target_error = None
       THEN Outcome("TypeError", None)
       ELSE IF RLess(scaling_factor, MIN_ALLOWED_DT_SCALING_FACTOR)
       THEN Outcome("FailedTimestepError", new_dt)
       ELSE IF RLess(MAX_ALLOWED_TIMESTEP, new_dt)
       THEN Outcome("return", MAX_ALLOWED_TIMESTEP)
       ELSE IF RLess(new_dt, MIN_ALLOWED_TIMESTEP)
       THEN Outcome("ConvergenceFailure", None)
       ELSE Outcome("return", new_dt)

\* scale_timestep with a rejection test that includes the minimum factor
scale_timestep_reject_le(dt, target_error, error_norm, order, scaling_function) ==
    LET scaling_factor ==
            IF scaling_function = "failed_timestep_scaling"
            THEN failed_timestep_scaling
            ELSE default_dt_scaling(target_error, error_norm, order)
        new_dt == RMul(scaling_factor, dt)
    IN IF scaling_function = "default_dt_scaling" /\ target_error = None
       THEN Outcome("TypeError", None)
       ELSE IF /\ RLeq(scaling_factor, MIN_ALLOWED_DT_SCALING_FACTOR)
               /\ scaling_function # "failed_timestep_scaling"
       THEN Outcome("FailedTimestepError", new_dt)
       ELSE IF RLess(MAX_ALLOWED_TIMESTEP, new_dt)
       THEN Outcome("return", MAX_ALLOWED_TIMESTEP)
       ELSE IF RLess(new_dt, MIN_ALLOWED_TIMESTEP)
       THEN Outcome("ConvergenceFailure", None)
       ELSE Outcome("return", new_dt)

\* the value returned or the exception raised by scale_timestep
scale_timestep(dt, target_error, error_norm, order, scaling_function) ==
    LET scaling_factor ==
            IF scaling_function = "failed_timestep_scaling"
            THEN failed_timestep_scaling
            ELSE default_dt_scaling(target_error, error_norm, order)
        new_dt == RMul(scaling_factor, dt)
    IN IF scaling_function = "default_dt_scaling" /\ target_error = None
       THEN Outcome("TypeError", None)
       ELSE IF /\ RLess(scaling_factor, MIN_ALLOWED_DT_SCALING_FACTOR)
               /\ scaling_function # "failed_timestep_scaling"
       THEN Outcome("FailedTimestepError", new_dt)
       ELSE IF RLess(MAX_ALLOWED_TIMESTEP, new_dt)
       THEN Outcome("return", MAX_ALLOWED_TIMESTEP)
       ELSE IF RLess(new_dt, MIN_ALLOWED_TIMESTEP)
       THEN Outcome("ConvergenceFailure", None)
       ELSE Outcome("return", new_dt)

\* general_time_adaptor: the step actually taken is rescaled
general_time_adaptor(tl, t_new, target_error, error_norm, method_order) ==
    scale_timestep(RSub(t_new, tl), target_error, error_norm, method_order,
                   "default_dt_scaling")

\* the estimators that divide by the ratio of the last two steps raise
\* ZeroDivisionError for a step of size zero
lte_raises(lte_calculator, tl, t_new) ==
    /\ lte_calculator \in {"bdf2_mp_lte_estimate", "tr_ab_lte_estimate"}
    /\ t_new = tl

\* create_random_time_adaptor(dt, 0.9, 1.1): the scalings the model draws
RandomScalings == {<<9, 1, -1>>, <<11, 10, 0>>}

\* ------------------------------------------------------------------------
\* Inputs of a run
\* ------------------------------------------------------------------------
Methods == {"bdf1", "bdf2", "bdf3", "bdf2 mp", "bdf2 ebdf3", "imr", "imr ebdf3",
            "imr w18", "trapezoid", "tr", "tr ab", "euler"}
\* the dt of the call: positive and within the allowed range (the code
\* does not check it)
\* the keys a method dict of the model has besides its label
MethodKeys(label) ==
    CASE label = "tr ab" -> {{}, {"dydt_func"}}
      [] label = "imr w18" -> {{}, {"p1_points", "p1_pred"}, PredictorKeys}
      [] OTHER -> {{}}
InitialDts == {<<2, 1, -8>>, <<4, 1, -8>>}
\* tmax minus the time the bootstrap history ends at
Horizons == {Zero, <<4, 1, -8>>}
TargetErrors == {None, <<1, 1, -4>>}
\* the y values of the model are names: the value a Newton solve returns
\* for the step after the history `values` is named by the number of that
\* step, the value a callback puts in its place by the negative number
NewtonValue(values) == Len(values)
Rewritten(y) == 0 - y
\* the entries of the derivative cache of the trapezoid rule are names too:
\* NaN is the filler, the derivative _get_initial_dy computes for the last
\* committed point is named by the number of that point, and the
\* derivative calculate_new_dy_if_needed derives from dys[-1] by the
\* number after it
NaN == 0
InvertTrapezoid(dy_nm1) == IF dy_nm1 = NaN THEN NaN ELSE dy_nm1 + 1
\* the value a Newton solve of the trapezoid rule residual returns is named
\* by the step and the derivative dy_n the residual used
TokenBase == 100
TrapezoidValue(values, dy_n) == NewtonValue(values) + TokenBase * dy_n
\* the error norms that give the scaling factors of the model
ErrorNorms(target_error) == {RDiv(target_error, RPow(f, 3)) : f \in ScalingFactors}

\* the time of the last point of the bootstrap history of a scheme
RECURSIVE BootstrapEnd(_)
BootstrapEnd(n) == IF n <= 1 THEN Zero ELSE RAdd(BootstrapEnd(n - 1), BootstrapDt)

\* ------------------------------------------------------------------------
\* State
\* ------------------------------------------------------------------------
VARIABLES
    method,                      \* odeint: method (its label)
    method_keys,                 \* odeint: method (the other keys of the dict)
    target_error,                \* odeint: target_error
    newton_failure_reduce_step,  \* _odeint: keyword argument
    actions_after_timestep,      \* _odeint: TRUE when a callback is given
    vary_step,                   \* _odeint: keyword argument
    tmax,                        \* _odeint: tmax
    base_dt,                     \* the dt the call was made with
    dt,                          \* _odeint: dt
    ts, ys,                      \* _odeint: the working lists
    t_np1, y_np1,                \* the speculative step of the Newton solve
    new_t_np1, new_y_np1,        \* the speculative step after the callback
    pc,                          \* position of the call
    exc,                         \* the exception that left the call
    result,                      \* what the caller received
    nsteps,                      \* steps the main loop committed
    nshrinks, nrejects,          \* Newton-failure shrinks, rejected steps
    last,                        \* the last thing that happened
    stalled,                     \* a callback returned a time not after ts[-1]
    dys,                         \* TrapezoidRuleResidual: self.dys
    call                         \* a direct call of scale_timestep

vars == <<method, method_keys, target_error, newton_failure_reduce_step,
          actions_after_timestep, vary_step, tmax, base_dt, dt, ts, ys,
          t_np1, y_np1, new_t_np1, new_y_np1, pc, exc, result, nsteps,
          nshrinks, nrejects, last, stalled, dys, call>>

args == <<method, method_keys, target_error, newton_failure_reduce_step,
          actions_after_timestep, vary_step, tmax, base_dt, call>>

Last(seq) == seq[Len(seq)]

scheme == _timestep_scheme_factory(method, method_keys)
dydt_func == dydt_func_of(method_keys)
time_adaptor == scheme.lte_calculator
adaptive == time_adaptor # NoFunction

Init ==
    /\ method \in Methods
    /\ method_keys \in MethodKeys(method)
    /\ target_error \in TargetErrors
    /\ newton_failure_reduce_step \in BOOLEAN
    /\ actions_after_timestep \in BOOLEAN
    /\ vary_step \in BOOLEAN
    /\ base_dt \in InitialDts
    /\ tmax \in {RAdd(BootstrapEnd(_timestep_scheme_factory(method, method_keys).n_start), h) :
                   h \in Horizons}
    /\ dt = base_dt
    /\ ts = <<>>
    /\ ys = <<>>
    /\ t_np1 = None /\ y_np1 = 0
    /\ new_t_np1 = None /\ new_y_np1 = 0
    /\ pc = "call"
    /\ exc = "none"
    /\ result = None
    /\ nsteps = 0
    /\ nshrinks = 0
    /\ nrejects = 0
    /\ last = "none"
    /\ stalled = FALSE
    /\ dys = <<>>
    /\ call = None

\* an exception leaves the call: the caller receives no value
Raise(e) ==
    /\ pc' = "raised"
    /\ exc' = e
    /\ result' = None
    /\ last' = "raise"

\* ------------------------------------------------------------------------
\* odeint and the bootstrap
\* ------------------------------------------------------------------------
\* TrapezoidRuleResidual.__init__: the factory makes a new object, with an
\* empty cache, whatever the cache of an earlier object holds
__init___shared(cache) == cache
__init__(cache) == <<>>

\* odeint up to the call of the initialisation actions in _odeint
odeint ==
    /\ pc = "call"
    /\ IF scheme.residual \in FactoryErrors
       THEN /\ Raise(scheme.residual)
            /\ UNCHANGED <<ts, ys>>
       ELSE /\ ts' = <<Zero>>
            /\ ys' = <<0>>
            /\ pc' = "bootstrap"
            /\ last' = "call"
            /\ UNCHANGED <<exc, result>>
    /\ dys' = __init__(dys)
    /\ UNCHANGED <<args, dt, t_np1, y_np1, new_t_np1, new_y_np1, nsteps,
                   nshrinks, nrejects, stalled>>

\* ------------------------------------------------------------------------
\* The derivative cache of TrapezoidRuleResidual
\* ------------------------------------------------------------------------
\* _get_initial_dy for a speculative history of n values: a filler for
\* every committed value, the last one replaced by the derivative at the
\* last committed point
_get_initial_dy(n) == [i \in 1..(n - 1) |-> IF i = n - 1 THEN n - 1 ELSE NaN]

\* calculate_new_dy_if_needed
calculate_new_dy_if_needed_always(cache, n) == Append(cache, InvertTrapezoid(Last(cache)))
calculate_new_dy_if_needed(cache, n) ==
    IF Len(cache) < n - 1 THEN Append(cache, InvertTrapezoid(Last(cache))) ELSE cache

\* the cache after TrapezoidRuleResidual.__call__ with a speculative
\* history of n values
__call__(cache, n) ==
    calculate_new_dy_if_needed(IF Len(cache) = 0 THEN _get_initial_dy(n) ELSE cache, n)

\* the cache after k residual evaluations of one Newton solve
RECURSIVE Evaluations(_, _, _)
Evaluations(cache, n, k) ==
    IF k = 0 THEN cache ELSE Evaluations(__call__(cache, n), n, k - 1)

trapezoid == scheme.residual = "TrapezoidRuleResidual"

\* calculate_new_dy_if_needed divides by ts[-2] - ts[-3], the last committed
\* step: 2.0/0.0 raises ZeroDivisionError
residual_raises ==
    /\ trapezoid
    /\ Len(dys) # 0
    /\ Len(dys) < Len(ys)
    /\ Last(ts) = ts[Len(ts) - 1]

\* while len(ys) < n_start
StartCondition_short(values, n_start) == Len(values) < n_start - 1
StartCondition_le(values, n_start) == Len(values) <= n_start
StartCondition(values, n_start) == Len(values) < n_start

\* one pass of the loop of higher_order_start: a fixed-step implicit
\* midpoint call of _odeint up to ts[-1] + dt, which takes one step
higher_order_start ==
    /\ pc = "bootstrap"
    /\ StartCondition(ys, scheme.n_start)
    /\ \/ /\ ts' = Append(ts, RAdd(Last(ts), BootstrapDt))
          /\ ys' = Append(ys, NewtonValue(ys))
          /\ last' = "bootstrap"
          /\ UNCHANGED <<pc, exc, result>>
       \/ \E e \in {"NoConvergence", "LinAlgError"} :
             /\ Raise(e)
             /\ UNCHANGED <<ts, ys>>
    /\ UNCHANGED <<dys, args, dt, t_np1, y_np1, new_t_np1, new_y_np1, nsteps,
                   nshrinks, nrejects, stalled>>

\* the initialisation actions are over: the assertion on vary_step
start_loop ==
    /\ pc = "bootstrap"
    /\ ~StartCondition(ys, scheme.n_start)
    /\ IF vary_step /\ adaptive
       THEN Raise("AssertionError")
       ELSE /\ pc' = "loop"
            /\ last' = "start"
            /\ UNCHANGED <<exc, result>>
    /\ UNCHANGED <<dys, args, dt, ts, ys, t_np1, y_np1, new_t_np1, new_y_np1,
                   nsteps, nshrinks, nrejects, stalled>>

\* ------------------------------------------------------------------------
\* The main time stepping loop of _odeint
\* ------------------------------------------------------------------------
\* while ts[-1] < tmax
LoopCondition_le(times, horizon) == RLeq(Last(times), horizon)
LoopCondition(times, horizon) == RLess(Last(times), horizon)

\* t_np1 = ts[-1] + dt
Propose_stale(times, step) == Last(times)
Propose(times, step) == RAdd(Last(times), step)

\* ys.append(new_y_np1); ts.append(new_t_np1)
Store_overwrite(seq, v) == [seq EXCEPT ![Len(seq)] = v]
Store(seq, v) == Append(seq, v)

\* a retry (continue) skips the append
Discard_keep(seq, v) == Append(seq, v)
Discard(seq, v) == seq

\* the Newton solve converges: y_np1 = newton(residual, ys[-1], ...)
newton_converges ==
    /\ pc = "loop"
    /\ LoopCondition(ts, tmax)
    /\ nsteps < MaxSteps
    /\ ~residual_raises
    /\ t_np1' = Propose(ts, dt)
    /\ IF trapezoid
       THEN /\ \E k \in 1..MaxEvaluations : dys' = Evaluations(dys, Len(ys) + 1, k)
            /\ y_np1' = TrapezoidValue(ys, Last(dys'))
       ELSE /\ y_np1' = NewtonValue(ys)
            /\ UNCHANGED dys
    /\ pc' = "solved"
    /\ last' = "solved"
    /\ UNCHANGED <<args, dt, ts, ys, new_t_np1, new_y_np1, exc, result,
                   nsteps, nshrinks, nrejects, stalled>>

\* the cache after a Newton solve that raised: the residual was evaluated,
\* or the exception came out of the implicit midpoint step of
\* _get_initial_dy, before the cache was assigned
FailedSolveCache ==
    IF trapezoid
    THEN \/ \E k \in 1..MaxEvaluations : dys' = Evaluations(dys, Len(ys) + 1, k)
         \/ Len(dys) = 0 /\ dys' = dys
    ELSE UNCHANGED dys

\* the first residual evaluation of a Newton solve raises ZeroDivisionError
\* in calculate_new_dy_if_needed
newton_residual_raises ==
    /\ pc = "loop"
    /\ LoopCondition(ts, tmax)
    /\ nsteps < MaxSteps
    /\ residual_raises
    /\ t_np1' = Propose(ts, dt)
    /\ Raise("ZeroDivisionError")
    /\ UNCHANGED <<args, dt, ts, ys, y_np1, new_t_np1, new_y_np1, nsteps,
                   nshrinks, nrejects, stalled, dys>>

\* the Newton solve raises NoConvergence: shrink the step and retry, or
\* re-raise
newton_no_convergence ==
    /\ pc = "loop"
    /\ LoopCondition(ts, tmax)
    /\ nsteps < MaxSteps
    /\ ~residual_raises
    /\ t_np1' = Propose(ts, dt)
    /\ FailedSolveCache
    /\ IF adaptive \/ newton_failure_reduce_step
       THEN LET r == scale_timestep(dt, None, None, None,
                                    "failed_timestep_scaling")
            IN IF r.kind = "return"
               THEN /\ nshrinks + nrejects < MaxRetries
                    /\ dt' = r.dt
                    /\ ts' = Discard(ts, t_np1')
                    /\ ys' = Discard(ys, y_np1)
                    /\ nshrinks' = nshrinks + 1
                    /\ last' = "newton_retry"
                    /\ UNCHANGED <<pc, exc, result>>
               ELSE /\ Raise(r.kind)
                    /\ UNCHANGED <<dt, ts, ys, nshrinks>>
       ELSE /\ Raise("NoConvergence")
            /\ UNCHANGED <<dt, ts, ys, nshrinks>>
    /\ UNCHANGED <<args, y_np1, new_t_np1, new_y_np1, nsteps, nrejects, stalled>>

\* the linear solve of a Newton iteration raises LinAlgError
newton_singular ==
    /\ pc = "loop"
    /\ LoopCondition(ts, tmax)
    /\ nsteps < MaxSteps
    /\ ~residual_raises
    /\ t_np1' = Propose(ts, dt)
    /\ FailedSolveCache
    /\ Raise("LinAlgError")
    /\ UNCHANGED <<args, dt, ts, ys, y_np1, new_t_np1, new_y_np1, nsteps,
                   nshrinks, nrejects, stalled>>

\* what a callback may hand back for the speculative step (t, y)
CallbackResults(times, t, y) == {<<t, y>>, <<t, Rewritten(y)>>, <<Last(times), y>>}

\* the post-step actions
post_step ==
    /\ pc = "solved"
    /\ IF actions_after_timestep
       THEN \E r \in CallbackResults(ts, t_np1, y_np1) :
              /\ new_t_np1' = r[1]
              /\ new_y_np1' = r[2]
              /\ stalled' = (stalled \/ ~RLess(Last(ts), r[1]))
       ELSE /\ new_t_np1' = t_np1
            /\ new_y_np1' = y_np1
            /\ UNCHANGED stalled
    /\ pc' = "adjusted"
    /\ last' = "adjusted"
    /\ UNCHANGED <<dys, args, dt, ts, ys, t_np1, y_np1, exc, result, nsteps,
                   nshrinks, nrejects>>

\* the appends with the Newton result in place of the callback's pair
Commit_raw ==
    /\ ys' = Store(ys, y_np1)
    /\ ts' = Store(ts, t_np1)
    /\ nsteps' = nsteps + 1
    /\ pc' = "loop"
    /\ last' = "commit"
    /\ UNCHANGED <<exc, result>>

\* ys.append(new_y_np1); ts.append(new_t_np1), back to the loop test
Commit ==
    /\ ys' = Store(ys, new_y_np1)
    /\ ts' = Store(ts, new_t_np1)
    /\ nsteps' = nsteps + 1
    /\ pc' = "loop"
    /\ last' = "commit"
    /\ UNCHANGED <<exc, result>>

\* the time adaptor is called for the next dt; the step is stored, or
\* rejected and repeated, or an exception leaves the call
adapt ==
    /\ pc = "adjusted"
    /\ adaptive
    /\ IF lte_raises(time_adaptor, Last(ts), new_t_np1)
       THEN /\ Raise("ZeroDivisionError")
            /\ UNCHANGED <<dt, ts, ys, nsteps, nrejects>>
       ELSE IF time_adaptor = "tr_ab_lte_estimate" /\ dydt_func = NoFunction
       THEN /\ Raise("TypeError")
            /\ UNCHANGED <<dt, ts, ys, nsteps, nrejects>>
       ELSE \E error_norm \in IF target_error = None THEN {None}
                                ELSE ErrorNorms(target_error) :
              LET r == general_time_adaptor(Last(ts), new_t_np1,
                                            target_error, error_norm, 2)
              IN CASE r.kind = "return" ->
                        /\ dt' = r.dt
                        /\ Commit
                        /\ UNCHANGED nrejects
                   [] r.kind = "FailedTimestepError" ->
                        /\ nshrinks + nrejects < MaxRetries
                        /\ dt' = r.dt
                        /\ ts' = Discard(ts, new_t_np1)
                        /\ ys' = Discard(ys, new_y_np1)
                        /\ nrejects' = nrejects + 1
                        /\ last' = "rejected"
                        /\ pc' = "loop"
                        /\ UNCHANGED <<exc, result, nsteps>>
                   [] OTHER ->
                        /\ Raise(r.kind)
                        /\ UNCHANGED <<dt, ts, ys, nsteps, nrejects>>
    /\ UNCHANGED <<dys, args, t_np1, y_np1, new_t_np1, new_y_np1, nshrinks, stalled>>

\* no adaptor, vary_step: the next dt is drawn at random
random_step ==
    /\ pc = "adjusted"
    /\ ~adaptive
    /\ vary_step
    /\ \E f \in RandomScalings : dt' = RMul(base_dt, f)
    /\ Commit
    /\ UNCHANGED <<dys, args, t_np1, y_np1, new_t_np1, new_y_np1, nshrinks, nrejects, stalled>>

\* no adaptor: the step is stored and dt stays
fixed_step ==
    /\ pc = "adjusted"
    /\ ~adaptive
    /\ ~vary_step
    /\ Commit
    /\ UNCHANGED <<dys, args, dt, t_np1, y_np1, new_t_np1, new_y_np1, nshrinks, nrejects,
                   stalled>>

\* the loop test fails: return ts, ys
return ==
    /\ pc = "loop"
    /\ ~LoopCondition(ts, tmax)
    /\ pc' = "returned"
    /\ result' = <<ts, ys>>
    /\ last' = "return"
    /\ UNCHANGED <<dys, args, dt, ts, ys, t_np1, y_np1, new_t_np1, new_y_np1, exc,
                   nsteps, nshrinks, nrejects, stalled>>

Next ==
    \/ odeint
    \/ higher_order_start
    \/ start_loop
    \/ newton_converges
    \/ newton_no_convergence
    \/ newton_singular
    \/ newton_residual_raises
    \/ post_step
    \/ adapt
    \/ random_step
    \/ fixed_step
    \/ return

Spec == Init /\ [][Next]_vars

\* ------------------------------------------------------------------------
\* scale_timestep called on its own
\* ------------------------------------------------------------------------
ScaleDts == {<<1, 1, -8>>, <<6, 5, -8>>, <<2, 1, -8>>, <<1, 1, -6>>, <<1, 1, 0>>,
             <<5, 2, 7>>, <<5, 1, 7>>, <<1, 1, 8>>, <<5, 1, -9>>, <<3, 1, 8>>}
ScaleTarget == <<1, 1, -4>>
ScalingFunctions == {"default_dt_scaling", "failed_timestep_scaling"}

InitScale ==
    /\ call \in {[dt |-> d, target_error |-> ScaleTarget, error_norm |-> n,
                   order |-> 2, scaling_function |-> f, out |-> Outcome("pending", None)] :
                    d \in ScaleDts, n \in ErrorNorms(ScaleTarget) \cup {Zero, NumpyZero},
                    f \in ScalingFunctions}
    /\ method = "bdf2"
    /\ method_keys = {}
    /\ target_error = None
    /\ newton_failure_reduce_step = FALSE
    /\ actions_after_timestep = FALSE
    /\ vary_step = FALSE
    /\ base_dt = Zero
    /\ tmax = Zero
    /\ dt = Zero
    /\ ts = <<>>
    /\ ys = <<>>
    /\ t_np1 = None /\ y_np1 = 0
    /\ new_t_np1 = None /\ new_y_np1 = 0
    /\ pc = "scale"
    /\ exc = "none"
    /\ result = None
    /\ nsteps = 0
    /\ nshrinks = 0
    /\ nrejects = 0
    /\ last = "none"
    /\ stalled = FALSE
    /\ dys = <<>>

call_scale_timestep ==
    /\ pc = "scale"
    /\ call.out.kind = "pending"
    /\ call' = [call EXCEPT !.out = scale_timestep(call.dt, call.target_error,
                                                   call.error_norm, call.order,
                                                   call.scaling_function)]
    /\ UNCHANGED <<dys, method, method_keys, target_error, newton_failure_reduce_step,
                   actions_after_timestep, vary_step, tmax, base_dt, dt, ts, ys,
                   t_np1, y_np1, new_t_np1, new_y_np1, pc, exc, result, nsteps,
                   nshrinks, nrejects, last, stalled>>

NextScale == call_scale_timestep

SpecScale == InitScale /\ [][NextScale]_vars

\* the variables of an odeint call while a function is called on its own
NoRun ==
    /\ method = "bdf2"
    /\ method_keys = {}
    /\ target_error = None
    /\ newton_failure_reduce_step = FALSE
    /\ actions_after_timestep = FALSE
    /\ vary_step = FALSE
    /\ base_dt = Zero
    /\ tmax = Zero
    /\ dt = Zero
    /\ ts = <<>>
    /\ ys = <<>>
    /\ t_np1 = None /\ y_np1 = 0
    /\ new_t_np1 = None /\ new_y_np1 = 0
    /\ exc = "none"
    /\ result = None
    /\ nsteps = 0
    /\ nshrinks = 0
    /\ nrejects = 0
    /\ last = "none"
    /\ stalled = FALSE

run == <<method, method_keys, target_error, newton_failure_reduce_step,
         actions_after_timestep, vary_step, tmax, base_dt, dt, ts, ys,
         t_np1, y_np1, new_t_np1, new_y_np1, exc, result, nsteps,
         nshrinks, nrejects, last, stalled, dys>>

\* ------------------------------------------------------------------------
\* newton called on its own
\* ------------------------------------------------------------------------
\* The iterates are named by their number: x0 is 0 and the result of the
\* i-th update x0 - dx is i.  The residual and the Jacobian are the
\* caller's functions: whether an iterate meets the tolerance
\* (sp.amax(abs(r)) < newton_tol) and whether the Jacobian at an iterate is
\* singular are inputs of the call.
Iterates == 0..MaxNewtonIter

\* wrapped_solve(A, b) for a singular A: with one unknown it is the numpy
\* division b/A[0][0], which raises nothing and gives a non-finite dx;
\* otherwise the LinAlgError of solve_function is raised again
wrapped_solve_singular(dim) == IF dim = 1 THEN "non-finite" ELSE "LinAlgError"

InitNewton ==
    /\ call \in {[max_iter |-> k, x |-> 0, dim |-> n, meets |-> m, singular |-> sg,
                   given_max_iter |-> k, failed_solves |-> 0,
                   out |-> Outcome("pending", None)] :
                    k \in Iterates, n \in {1, 2}, m \in [Iterates -> BOOLEAN],
                    sg \in [Iterates -> BOOLEAN]}
    /\ pc = "newton"
    /\ dys = <<>>
    /\ NoRun

\* one level of the recursion of _newton
_newton ==
    /\ pc = "newton"
    /\ call.out.kind = "pending"
    /\ call' =
         IF call.max_iter <= 0
         THEN [call EXCEPT !.out = Outcome("NoConvergence", None)]
         ELSE IF call.meets[call.x]
         THEN [call EXCEPT !.out = Outcome("return", call.x)]
         ELSE IF call.singular[call.x] /\ wrapped_solve_singular(call.dim) = "LinAlgError"
         THEN [call EXCEPT !.out = Outcome("LinAlgError", None)]
         ELSE [call EXCEPT !.x = @ + 1, !.max_iter = @ - 1,
                           !.failed_solves = IF call.singular[call.x] THEN @ + 1 ELSE @]
    /\ UNCHANGED <<run, pc>>

NextNewton == _newton

SpecNewton == InitNewton /\ [][NextNewton]_vars

\* ------------------------------------------------------------------------
\* odeint called twice with the same arguments, in fixed-step mode
\* ------------------------------------------------------------------------
\* the schemes without adaptor
FixedStepMethods == {m \in Methods : /\ _timestep_scheme_factory(m, {}).residual
                                            \notin FactoryErrors
                                       /\ _timestep_scheme_factory(m, {}).lte_calculator
                                            = NoFunction}

\* The user's function is the same in both calls: its Newton solves
\* converge for the step sizes up to a threshold and fail for larger ones.
Thresholds == {<<2, 1, -8>>, <<4, 1, -8>>}
Converges == RLeq(dt, call.threshold)

InitTwice ==
    /\ method \in FixedStepMethods
    /\ method_keys = {}
    /\ target_error \in TargetErrors
    /\ newton_failure_reduce_step \in BOOLEAN
    /\ actions_after_timestep = FALSE
    /\ vary_step = FALSE
    /\ base_dt \in InitialDts
    /\ tmax \in {RAdd(BootstrapEnd(_timestep_scheme_factory(method, method_keys).n_start), h) :
                   h \in Horizons}
    /\ dt = base_dt
    /\ ts = <<>>
    /\ ys = <<>>
    /\ t_np1 = None /\ y_np1 = 0
    /\ new_t_np1 = None /\ new_y_np1 = 0
    /\ pc = "call"
    /\ exc = "none"
    /\ result = None
    /\ nsteps = 0
    /\ nshrinks = 0
    /\ nrejects = 0
    /\ last = "none"
    /\ stalled = FALSE
    /\ dys = <<>>
    /\ call \in {[threshold |-> th, calls |-> 1, first |-> None, first_pc |-> "none"] :
                    th \in Thresholds}

\* the first call is over and the caller calls odeint again with the
\* arguments of the first call: the parameters are bound anew, what the
\* first call left behind is still there
second_call ==
    /\ pc \in {"returned", "raised"}
    /\ call.calls = 1
    /\ call' = [call EXCEPT !.calls = 2, !.first = result, !.first_pc = pc]
    /\ pc' = "call"
    /\ dt' = base_dt
    /\ exc' = "none"
    /\ result' = None
    /\ nsteps' = 0
    /\ nshrinks' = 0
    /\ nrejects' = 0
    /\ last' = "none"
    /\ UNCHANGED <<method, method_keys, target_error, newton_failure_reduce_step,
                   actions_after_timestep, vary_step, tmax, base_dt, ts, ys,
                   t_np1, y_np1, new_t_np1, new_y_np1, stalled, dys>>

newton_of_function_converges == Converges /\ newton_converges
newton_of_function_fails == ~Converges /\ newton_no_convergence

NextTwice ==
    \/ odeint
    \/ higher_order_start
    \/ start_loop
    \/ newton_of_function_converges
    \/ newton_of_function_fails
    \/ post_step
    \/ fixed_step
    \/ return
    \/ second_call

SpecTwice == InitTwice /\ [][NextTwice]_vars

\* ------------------------------------------------------------------------
\* ibdf2_step and bdf2_dydt called on their own
\* ------------------------------------------------------------------------
\* The formulas are evaluated in exact signed fractions <<n, d>>, d > 0, in
\* lowest terms (the module has true division: 1/dt_n is not truncated).
Abs(x) == IF x < 0 THEN 0 - x ELSE x
QNorm(n, d) ==
    LET g == GCD(Abs(n), Abs(d))
        sgn == IF d < 0 THEN 0 - 1 ELSE 1
    IN <<(sgn * n) \div g, (sgn * d) \div g>>
Q(n) == <<n, 1>>
QAdd(a, b) == QNorm(a[1] * b[2] + b[1] * a[2], a[2] * b[2])
QSub(a, b) == QNorm(a[1] * b[2] - b[1] * a[2], a[2] * b[2])
QMul(a, b) == QNorm(a[1] * b[1], a[2] * b[2])
QDiv(a, b) == QNorm(a[1] * b[2], a[2] * b[1])

\* the step with the step sizes taken for equal
ibdf2_step_uniform(dtn, yn, dynp1, dtnm1, ynm1) ==
    QDiv(QAdd(QSub(QMul(Q(4), yn), ynm1), QMul(QMul(Q(2), dtn), dynp1)), Q(3))

\* (-dtn**2*ynm1 + dtn*dtnm1*dynp1*(dtn + dtnm1)
\*    + yn*(dtn**2 + 2*dtn*dtnm1 + dtnm1**2))/(dtnm1*(2*dtn + dtnm1))
ibdf2_step(dtn, yn, dynp1, dtnm1, ynm1) ==
    LET dtn2 == QMul(dtn, dtn)
        dtnm12 == QMul(dtnm1, dtnm1)
        t1 == QSub(Q(0), QMul(dtn2, ynm1))
        t2 == QMul(QMul(QMul(dtn, dtnm1), dynp1), QAdd(dtn, dtnm1))
        t3 == QMul(yn, QAdd(QAdd(dtn2, QMul(QMul(Q(2), dtn), dtnm1)), dtnm12))
    IN QDiv(QAdd(QAdd(t1, t2), t3),
            QMul(dtnm1, QAdd(QMul(Q(2), dtn), dtnm1)))

\* dy/dt at ts[-1] from the last three points
bdf2_dydt(times, values) ==
    LET n == Len(times)
        dt_n == QSub(times[n], times[n - 1])
        dt_nm1 == QSub(times[n - 1], times[n - 2])
        y_n_plus_1 == values[n]
        y_n == values[n - 1]
        y_nm1 == values[n - 2]
    IN QAdd(QSub(QMul(QAdd(QDiv(Q(1), dt_n), QDiv(Q(1), QAdd(dt_n, dt_nm1))),
                      y_n_plus_1),
                 QMul(QDiv(QAdd(dt_n, dt_nm1), QMul(dt_n, dt_nm1)), y_n)),
            QMul(QDiv(dt_n, QMul(QAdd(dt_n, dt_nm1), dt_nm1)), y_nm1))

\* positive step sizes, and values and derivatives of both signs
StepSizes == {<<1, 2>>, <<1, 1>>, <<3, 1>>}
Values == {<<0 - 1, 1>>, <<0, 1>>, <<5, 2>>}
Derivatives == {<<0 - 2, 1>>, <<0, 1>>, <<1, 3>>}

InitBdf2 ==
    /\ call \in {[dtn |-> a, dtnm1 |-> b, yn |-> y1, ynm1 |-> y0, dynp1 |-> d,
                   ynp1 |-> None, dydt |-> None] :
                    a \in StepSizes, b \in StepSizes, y1 \in Values, y0 \in Values,
                    d \in Derivatives}
    /\ pc = "ibdf2_step"
    /\ dys = <<>>
    /\ NoRun

\* the times [t_nm1, t_n, t_np1] of a step that starts at t_nm1 = 0
StepTimes(c) == <<Q(0), c.dtnm1, QAdd(c.dtnm1, c.dtn)>>

\* y_np1 = ibdf2_step(dtn, yn, dynp1, dtnm1, ynm1)
call_ibdf2_step ==
    /\ pc = "ibdf2_step"
    /\ call' = [call EXCEPT !.ynp1 = ibdf2_step(call.dtn, call.yn, call.dynp1,
                                                call.dtnm1, call.ynm1)]
    /\ pc' = "bdf2_dydt"
    /\ UNCHANGED run

\* bdf2_dydt of the step
call_bdf2_dydt ==
    /\ pc = "bdf2_dydt"
    /\ call' = [call EXCEPT !.dydt = bdf2_dydt(StepTimes(call),
                                               <<call.ynm1, call.yn, call.ynp1>>)]
    /\ pc' = "bdf2_done"
    /\ UNCHANGED run

NextBdf2 == call_ibdf2_step \/ call_bdf2_dydt

SpecBdf2 == InitBdf2 /\ [][NextBdf2]_vars

\* ------------------------------------------------------------------------
\* The initialisation actions, from the seed of odeint or from a history
\* given to _odeint
\* ------------------------------------------------------------------------
\* longest history given to a direct call of _odeint
MaxHistory == 3

\* a history of m points, InitialDts apart, as an earlier call leaves it
RECURSIVE HistoryTimes(_, _)
HistoryTimes(m, step) ==
    IF m = 1 THEN <<Zero>>
    ELSE LET h == HistoryTimes(m - 1, step) IN Append(h, RAdd(Last(h), step))
HistoryValues(m) == [i \in 1..m |-> i - 1]

\* the schemes the factory accepts, with every key they read
ValidMethods == Methods \ {"euler"}
AllKeys == PredictorKeys \cup {"dydt_func"}

InitStart ==
    /\ method \in ValidMethods
    /\ method_keys = AllKeys
    /\ target_error = None
    /\ newton_failure_reduce_step = FALSE
    /\ actions_after_timestep = FALSE
    /\ vary_step = FALSE
    /\ base_dt \in InitialDts
    /\ tmax = Zero
    /\ dt = base_dt
    /\ t_np1 = None /\ y_np1 = 0
    /\ new_t_np1 = None /\ new_y_np1 = 0
    /\ exc = "none"
    /\ result = None
    /\ nsteps = 0
    /\ nshrinks = 0
    /\ nrejects = 0
    /\ last = "none"
    /\ stalled = FALSE
    /\ dys = <<>>
    /\ \/ /\ pc = "call"
          /\ ts = <<>> /\ ys = <<>>
          /\ call = [tsin |-> <<Zero>>, ysin |-> <<0>>]
       \/ \E m \in 1..MaxHistory :
             /\ pc = "bootstrap"
             /\ ts = HistoryTimes(m, base_dt) /\ ys = HistoryValues(m)
             /\ call = [tsin |-> ts, ysin |-> ys]

NextStart ==
    \/ odeint
    \/ higher_order_start
    \/ start_loop

SpecStart == InitStart /\ [][NextStart]_vars

\* ------------------------------------------------------------------------
\* A sub-integration: _odeint called by higher_order_start or by
\* TrapezoidRuleResidual._get_initial_dy
\* ------------------------------------------------------------------------
\* Python lists are objects: heap is the sequence of the lists that exist,
\* a list is named by its position in heap, and two names of one position
\* are two references to one list.  The caller's ts is list 1, its ys
\* list 2.

\* copy.copy(tsin): the copy is a new list, the next one of the heap
copy_same(h, list) == list
copy(h, list) == Len(h) + 1

\* ts[:-2]
AllButLastTwo(seq) == SubSeq(seq, 1, Len(seq) - 2)

\* the lists a caller holds: for higher_order_start a history, for the
\* trapezoid rule residual a history of at least two points and the
\* speculative point after them
StartSteps == InitialDts \cup {BootstrapDt}
CallerTimes(kind) ==
    IF kind = "higher_order_start"
    THEN {HistoryTimes(m, d) : m \in 1..MaxHistory, d \in StartSteps}
    ELSE {Append(HistoryTimes(m, d), RAdd(Last(HistoryTimes(m, d)), d2)) :
             m \in 2..MaxHistory, d \in StartSteps, d2 \in StartSteps}

InitSub ==
    /\ \E kind \in {"higher_order_start", "_get_initial_dy"} :
         \E times \in CallerTimes(kind) :
            call = [kind |-> kind,
                    heap |-> <<times, HistoryValues(Len(times))>>,
                    before |-> <<times, HistoryValues(Len(times))>>,
                    tsin |-> 0, ysin |-> 0, ts |-> 0, ys |-> 0,
                    dt |-> None, tmax |-> None, steps |-> 0]
    /\ pc = "sub_call"
    /\ dys = <<>>
    /\ NoRun

\* the caller calls _odeint: higher_order_start passes its lists,
\* _get_initial_dy deep copies of ts[:-2] and ys[:-2] and twice the last
\* committed step
call__odeint ==
    /\ pc = "sub_call"
    /\ IF call.kind = "higher_order_start"
       THEN call' = [call EXCEPT !.tsin = 1, !.ysin = 2, !.dt = BootstrapDt,
                                 !.tmax = RAdd(Last(call.heap[1]), BootstrapDt)]
       ELSE LET times == call.heap[1]
                n == Len(times)
                temp_ts == AllButLastTwo(times)
                temp_ys == AllButLastTwo(call.heap[2])
                dt_n == RMul(<<2, 1, 0>>, RSub(times[n - 1], times[n - 2]))
            IN call' = [call EXCEPT !.heap = call.heap \o <<temp_ts, temp_ys>>,
                                    !.tsin = 3, !.ysin = 4, !.dt = dt_n,
                                    !.tmax = RAdd(Last(temp_ts), dt_n)]
    /\ pc' = "sub_entry"
    /\ UNCHANGED run

\* ts = copy.copy(tsin); ys = copy.copy(ysin)
_odeint_copy ==
    /\ pc = "sub_entry"
    /\ LET h1 == Append(call.heap, call.heap[call.tsin])
           h2 == Append(h1, h1[call.ysin])
       IN call' = [call EXCEPT !.heap = h2,
                               !.ts = copy(call.heap, call.tsin),
                               !.ys = copy(h1, call.ysin)]
    /\ pc' = "sub_loop"
    /\ UNCHANGED run

\* one pass of the loop of the sub-integration: no adaptor, no callback,
\* no override; the Newton solve converges and the step is appended, or it
\* raises
_odeint_step ==
    /\ pc = "sub_loop"
    /\ LoopCondition(call.heap[call.ts], call.tmax)
    /\ \/ /\ LET h1 == [call.heap EXCEPT ![call.ys] =
                                 Append(@, NewtonValue(call.heap[call.ys]))]
                 h2 == [h1 EXCEPT ![call.ts] =
                                 Append(@, Propose(call.heap[call.ts], call.dt))]
             IN call' = [call EXCEPT !.heap = h2, !.steps = @ + 1]
          /\ UNCHANGED pc
       \/ /\ pc' = "sub_raised"
          /\ UNCHANGED call
    /\ UNCHANGED run

\* return ts, ys
_odeint_return ==
    /\ pc = "sub_loop"
    /\ ~LoopCondition(call.heap[call.ts], call.tmax)
    /\ pc' = "sub_returned"
    /\ UNCHANGED <<run, call>>

NextSub ==
    \/ call__odeint
    \/ _odeint_copy
    \/ _odeint_step
    \/ _odeint_return

SpecSub == InitSub /\ [][NextSub]_vars

\* ------------------------------------------------------------------------
\* Properties
\* ------------------------------------------------------------------------
IsPrefix(s, t) == Len(s) <= Len(t) /\ SubSeq(t, 1, Len(s)) = s
StrictlyIncreasing(seq) == \A i \in 1..(Len(seq) - 1) : RLess(seq[i], seq[i + 1])
InRange(x) == RLeq(MIN_ALLOWED_TIMESTEP, x) /\ RLeq(x, MAX_ALLOWED_TIMESTEP)
Half(x) == RMul(<<5, 1, -1>>, x)
Retried == nshrinks' # nshrinks \/ nrejects' # nrejects
\* a step of the main loop in which the Newton solve did not converge
NewtonFailed ==
    /\ pc = "loop"
    /\ \/ nshrinks' # nshrinks
       \/ pc' = "raised" /\ exc' \in {"NoConvergence", "ConvergenceFailure",
                                        "FailedTimestepError"}
RetryEnabled == adaptive \/ newton_failure_reduce_step

\* C1: the time list and the value list always have the same length, and
\* every step of the call leaves the lists as they were or extends them at
\* the end: no entry is overwritten or removed.
C1_AppendOnly ==
    /\ [](Len(ts) = Len(ys))
    /\ [][IsPrefix(ts, ts') /\ IsPrefix(ys, ys')]_vars

\* C1 witness: steps were committed around a Newton-failure retry and a
\* rejected step.
C1_Witness ==
    /\ last = "commit" /\ Len(ts) >= 3 /\ Len(ys) = Len(ts)
    /\ nshrinks >= 1 /\ nrejects >= 1

\* C2 as stated: the committed times are strictly increasing, whatever a
\* callback returns.
C2_Original == StrictlyIncreasing(ts)

\* C2: the committed times are strictly increasing as long as every time a
\* callback returned was later than the last committed time.
C2_IncreasingUnlessStalled == ~stalled => StrictlyIncreasing(ts)

\* C2 witness: a run with a callback that committed two steps after a retry
\* of each kind.
C2_Witness ==
    /\ actions_after_timestep /\ ~stalled /\ nsteps >= 2
    /\ nshrinks >= 1 /\ nrejects >= 1 /\ StrictlyIncreasing(ts)

\* C3: a Newton-failure retry and a rejection leave ts, ys and the
\* arguments of the call as they were and go back to the loop test, and
\* every solved proposal is the last committed time plus the current dt.
C3_RetryDiscards ==
    /\ [][Retried => ts' = ts /\ ys' = ys /\ pc' = "loop" /\ tmax' = tmax]_vars
    /\ [](pc = "solved" => t_np1 = RAdd(Last(ts), dt))

\* C3 witness: a proposal solved after a retry of each kind.
C3_Witness ==
    /\ pc = "solved" /\ nshrinks >= 1 /\ nrejects >= 1
    /\ t_np1 = RAdd(Last(ts), dt) /\ dt # base_dt

\* C4 as stated: dt is within [MIN_ALLOWED_TIMESTEP, MAX_ALLOWED_TIMESTEP]
\* in every state of a run.
C4_DtInRange == InRange(dt)

\* C5 as stated: scale_timestep hands back no step size outside the range,
\* neither as its value nor in a FailedTimestepError, and raises
\* ConvergenceFailure whenever the scaled step is below the minimum.
C5_ScaleInRange ==
    (pc = "scale" /\ call.out.kind # "pending") =>
        /\ call.out.kind \in {"return", "FailedTimestepError"} => InRange(call.out.dt)
        /\ LET factor == IF call.scaling_function = "failed_timestep_scaling"
                         THEN TIMESTEP_FAILURE_DT_SCALING_FACTOR
                         ELSE default_dt_scaling(call.target_error,
                                                 call.error_norm, call.order)
           IN RLess(RMul(factor, call.dt), MIN_ALLOWED_TIMESTEP)
                  => call.out.kind = "ConvergenceFailure"

\* C6: a call that returned has its last time at or after tmax, a Newton
\* solve of the main loop is only started while the last time is before
\* tmax, and the loop only returns when it is not.
C6_Horizon ==
    /\ [](pc = "returned" => RLeq(tmax, Last(ts)))
    /\ [][(pc = "loop" /\ pc' = "returned") => ~RLess(Last(ts), tmax)]_vars
    /\ [][(pc = "loop" /\ last' \in {"solved", "newton_retry", "raise"})
               => RLess(Last(ts), tmax)]_vars

\* C6 witness: the call returned after main-loop steps that ended exactly at
\* tmax.
C6_Witness ==
    /\ pc = "returned" /\ nsteps >= 1 /\ Last(ts) = tmax /\ result = <<ts, ys>>

\* C7 as stated, for the rejections: once a rejection suggests a dt below
\* the minimum the run ends in a fatal error instead of retrying.
C7_RejectionBelowMinIsFatal ==
    (last = "rejected" /\ RLess(dt, MIN_ALLOWED_TIMESTEP)) => pc = "raised"

\* C8 as stated: after a fatal error the caller has the trajectory
\* committed so far.
C8_PartialTrajectoryDelivered ==
    (pc = "raised" /\ exc \in {"NoConvergence", "LinAlgError", "ConvergenceFailure"})
        => result = <<ts, ys>>

\* C9 as stated: a Newton failure with an adaptor or the override is always
\* followed by a retry with dt halved; without them NoConvergence leaves
\* the call.
C9_Original ==
    [][NewtonFailed =>
          IF RetryEnabled
          THEN pc' = "loop" /\ dt' = Half(dt)
          ELSE pc' = "raised" /\ exc' = "NoConvergence"]_vars

\* C9: a Newton failure with an adaptor or the override is followed by a
\* retry with dt halved exactly, or, when half of dt is below the minimum
\* step, by ConvergenceFailure; FailedTimestepError is never raised; without
\* adaptor and override NoConvergence leaves the call and nothing is retried.
C9_NewtonFailureShrink ==
    [][NewtonFailed =>
          IF RetryEnabled
          THEN IF RLess(Half(dt), MIN_ALLOWED_TIMESTEP)
               THEN pc' = "raised" /\ exc' = "ConvergenceFailure" /\ dt' = dt
               ELSE pc' = "loop" /\ dt' = Half(dt) /\ exc' = "none"
          ELSE pc' = "raised" /\ exc' = "NoConvergence" /\ dt' = dt]_vars

\* C9 witness: two Newton-failure retries in a row in a run without
\* adaptor, with the override.
C9_Witness ==
    /\ last = "newton_retry" /\ nshrinks = 2 /\ nrejects = 0
    /\ ~adaptive /\ newton_failure_reduce_step /\ dt = Half(Half(base_dt))

\* C10: FailedTimestepError never leaves a call.
C10_StepRejectedNeverEscapes == exc # "FailedTimestepError"

\* C10 witness: an adaptive call returned after a rejected step and a
\* Newton-failure shrink.
C10_Witness ==
    /\ pc = "returned" /\ adaptive /\ nrejects >= 1 /\ nshrinks >= 1
    /\ exc = "none"

\* a method the spec calls misconfigured: an unknown label, 'tr ab' without
\* its exact-derivative function, 'imr w18' without its predictor keys
Misconfigured ==
    \/ method \notin {"bdf1", "bdf2", "bdf3", "bdf2 mp", "bdf2 ebdf3", "imr",
                      "imr ebdf3", "imr w18", "trapezoid", "tr", "tr ab"}
    \/ method = "tr ab" /\ "dydt_func" \notin method_keys
    \/ method = "imr w18" /\ ~(PredictorKeys \subseteq method_keys)

\* C11 as stated: a call with a misconfigured method never starts to
\* integrate (no seed trajectory, no bootstrap step, no Newton solve, no
\* main-loop step), and the exception that ends it is one the factory raises.
C11_RejectedBeforeIntegration ==
    Misconfigured =>
        /\ pc \in {"call", "raised"}
        /\ ts = <<>>
        /\ pc = "raised" => exc \in FactoryErrors

\* the steps the main loop committed all have the size step
CommittedStepsOfSize(step) ==
    \A i \in (Len(ts) - nsteps)..(Len(ts) - 1) :
        i >= 1 => ts[i + 1] = RAdd(ts[i], step)

\* C12 as stated: with target_error None a call of any correctly configured
\* scheme, with an adaptor or not, runs with a fixed step (the adaptor is
\* not called, so none of its exceptions leaves the call, nothing is
\* rejected, and without callback and Newton-failure shrink every committed
\* step has the size of the dt given); and a scheme without adaptor never
\* calls an adaptor or rejects a step whatever target_error is.
C12_StepModeByTargetError ==
    /\ (target_error = None /\ ~Misconfigured /\ ~vary_step) =>
          /\ exc # "TypeError"
          /\ nrejects = 0
          /\ (~actions_after_timestep /\ nshrinks = 0) =>
                 dt = base_dt /\ CommittedStepsOfSize(base_dt)
    /\ (~adaptive /\ ~Misconfigured) =>
          exc # "TypeError" /\ nrejects = 0

\* a direct call of newton is over
NewtonDone == pc = "newton" /\ call.out.kind # "pending"

\* C13 as stated: newton raises NoConvergence exactly when none of the
\* iterates x0 .. x_max_iter meets the tolerance (no linear solve having
\* failed), and a value it returns meets the tolerance.
C13_NoConvergenceIffNoIterateMeets ==
    NewtonDone =>
        /\ call.out.kind = "return" => call.meets[call.out.dt]
        /\ (\A i \in 0..call.given_max_iter : ~call.singular[i]) =>
              (call.out.kind = "NoConvergence"
                  <=> \A i \in 0..call.given_max_iter : ~call.meets[i])

\* C14 as stated, for the solver: newton never goes on iterating with the
\* result of a linear solve whose Jacobian was singular, whatever the
\* number of unknowns; such a solve ends the call with LinAlgError, never
\* with NoConvergence or a value.
C14_SingularJacobianIsFatal ==
    pc = "newton" =>
        /\ call.failed_solves = 0
        /\ \A i \in 0..(call.x - 1) : ~call.singular[i]

\* C15: the second of two odeint calls with the same arguments, in
\* fixed-step mode, starts from a seed trajectory, a step size and a scheme
\* object of its own (nothing the first call wrote is visible to it), and
\* when both calls return they return the same (times, values).
C15_SecondCallRepeatsFirst ==
    (pc # "call" /\ call.calls = 2) =>
        /\ last = "call" => ts = <<Zero>> /\ ys = <<0>> /\ dys = <<>> /\ dt = base_dt
        /\ (pc = "returned" /\ call.first_pc = "returned") => result = call.first

\* C15 witness: the second call of a trapezoid rule run has returned a
\* trajectory with two main-loop steps, taken after a Newton-failure
\* shrink, as the first call did.
C15_Witness ==
    /\ call.calls = 2 /\ pc = "returned" /\ call.first_pc = "returned"
    /\ trapezoid /\ nsteps = 2 /\ nshrinks = 1 /\ Len(dys) >= 3
    /\ result = call.first /\ result = <<ts, ys>>

\* the values around the step of ibdf2_step that a solution could be
Candidates(y) == {QAdd(y, o) : o \in {<<0 - 1, 1>>, <<0 - 1, 7>>, <<0, 1>>, <<1, 9>>, <<2, 1>>}}

\* C16: for positive step sizes, equal or not, bdf2_dydt of the step that
\* ibdf2_step returns for the derivative d is d, and no other value in
\* place of that step gives d.
C16_StepInvertsDerivative ==
    /\ pc = "bdf2_done" => call.dydt = call.dynp1
    /\ pc \in {"bdf2_dydt", "bdf2_done"} =>
          \A y \in Candidates(call.ynp1) :
              bdf2_dydt(StepTimes(call), <<call.ynm1, call.yn, y>>) = call.dynp1
                  <=> y = call.ynp1

\* C16 witness: a step with unequal step sizes, a negative value and a
\* nonzero derivative was inverted.
C16_Witness ==
    /\ pc = "bdf2_done" /\ call.dtn # call.dtnm1 /\ call.dydt = call.dynp1
    /\ call.ynm1[1] < 0 /\ call.dynp1[1] # 0 /\ call.ynp1 # call.yn

\* C17 as stated: a call of scale_timestep with the default scaling that
\* returns a step size returns at most MAX_ALLOWED_DT_SCALING_FACTOR times
\* dt, and for an error norm of zero exactly that, when it is within the
\* allowed range of step sizes; an error norm of zero raises nothing.
C17_FactorAtMostMax ==
    (pc = "scale" /\ call.out.kind # "pending"
        /\ call.scaling_function = "default_dt_scaling") =>
        LET max_dt == RMul(MAX_ALLOWED_DT_SCALING_FACTOR, call.dt)
        IN /\ call.out.kind = "return" => RLeq(call.out.dt, max_dt)
           /\ (IsZero(call.error_norm) /\ InRange(max_dt)) =>
                 call.out = Outcome("return", max_dt)

\* a call of the time adaptor in which the LTE estimate is computed and
\* the target error is a number
AdaptorCall ==
    /\ pc = "adjusted" /\ adaptive
    /\ target_error # None
    /\ ~Misconfigured
    /\ ~lte_raises(time_adaptor, Last(ts), new_t_np1)

StepRejected == nrejects' = nrejects + 1 /\ pc' = "loop" /\ ts' = ts /\ ys' = ys
StepCommitted ==
    /\ nsteps' = nsteps + 1 /\ pc' = "loop"
    /\ ts' = Append(ts, new_t_np1) /\ ys' = Append(ys, new_y_np1)

AddedByBootstrap(m) ==
    \A i \in (m + 1)..Len(ts) :
        ts[i] = RAdd(ts[i - 1], <<1, 1, -6>>) /\ ys[i] = NewtonValue(SubSeq(ys, 1, i - 1))

\* C19: when the initialisation actions are over, a history of m points of
\* a scheme with bootstrap order k has become one of k points if m < k and
\* is unchanged otherwise (and for bdf1 and imr, which have none, it is the
\* history given: the single seed point in odeint); the first m points are
\* the ones given and every other point is one implicit midpoint step of
\* size 1e-6 after the point before; every pass adds exactly one point.
C19_BootstrapFillsHistory ==
    /\ [](LET m == Len(call.tsin)
               k == scheme.n_start
           IN /\ pc \in {"bootstrap", "loop"} =>
                    /\ IsPrefix(call.tsin, ts) /\ IsPrefix(call.ysin, ys)
                    /\ Len(ts) = Len(ys)
                    /\ Len(ts) <= (IF m < k THEN k ELSE m)
                    /\ AddedByBootstrap(m)
              /\ pc = "loop" => Len(ts) = (IF m < k THEN k ELSE m))
    /\ [][(pc = "bootstrap" /\ pc' = "bootstrap") =>
              Len(ts') = Len(ts) + 1 /\ Len(ts) < scheme.n_start]_vars

\* C19 witness: a history of two points was filled up to the five points
\* of 'imr ebdf3'.
C19_Witness ==
    /\ pc = "loop" /\ scheme.n_start = 5 /\ Len(call.tsin) = 2
    /\ Len(ts) = 5 /\ IsPrefix(call.tsin, ts)
    /\ ts[5] = RAdd(ts[2], <<3, 1, -6>>)

\* the Newton solve that just ended evaluated the residual
Evaluated == pc \in {"solved", "adjusted"} \/ last \in {"newton_retry", "rejected"}

\* C20: the cache of the trapezoid rule is filled by the first residual
\* evaluation; from then on it has one entry for every committed value
\* after each Newton solve and one less between a commit and the next
\* solve; it only ever grows at its end, by one entry, in the first solve
\* after a commit, and the new entry is the inverted trapezoid rule of the
\* last entry; retries and rejections leave it as it is.
C20_CacheFollowsCommits ==
    /\ [](/\ ~trapezoid => dys = <<>>
          /\ (trapezoid /\ pc \in {"solved", "adjusted"}) => dys # <<>>
          /\ dys # <<>> =>
                /\ Len(dys) \in {Len(ys) - 1, Len(ys)}
                /\ Evaluated => Len(dys) = Len(ys))
    /\ [][dys # <<>> =>
             /\ IsPrefix(dys, dys')
             /\ Len(dys') <= Len(dys) + 1
             /\ Len(dys') = Len(dys) + 1 =>
                   /\ last = "commit" /\ pc = "loop"
                   /\ Last(dys') = InvertTrapezoid(Last(dys))
             /\ (last = "commit" /\ last' \in {"solved", "newton_retry"}) =>
                   Len(dys') = Len(dys) + 1
             /\ (last' \in {"newton_retry", "rejected"} /\ last # "commit") =>
                   dys' = dys]_vars

\* C20 witness: in a run of 'tr ab' the solve after the first commit has
\* added the second derivative to the cache, after a Newton-failure retry
\* and a rejected step.
C20_Witness ==
    /\ method = "tr ab" /\ pc = "solved" /\ nsteps = 1
    /\ nshrinks >= 1 /\ nrejects >= 1
    /\ dys = <<NaN, 2, 3>> /\ Len(ys) = 3

\* (temp_ts[-1] + temp_ts[-2])/2 of the lists the sub-integration returned
Midpoint(times) ==
    RDiv(RAdd(times[Len(times)], times[Len(times) - 1]), <<2, 1, 0>>)

\* C21: in every state of a sub-integration the caller's ts and ys are
\* the lists they were before the call; the sub-integration returns after
\* exactly one step appended to lists of its own; and for the trapezoid
\* rule that step starts two entries back, has twice the size of the last
\* committed step and its midpoint is the last committed time.
C21_CallerHistoryUntouched ==
    (pc \in {"sub_call", "sub_entry", "sub_loop", "sub_returned", "sub_raised"}) =>
        /\ call.heap[1] = call.before[1]
        /\ call.heap[2] = call.before[2]
        /\ pc \in {"sub_loop", "sub_returned", "sub_raised"} =>
              call.ts \notin {1, 2, call.tsin} /\ call.ys \notin {1, 2, call.ysin}
        /\ pc = "sub_returned" =>
              LET times == call.before[1]
                  n == Len(times)
                  out == call.heap[call.ts]
              IN /\ call.steps = 1
                 /\ Len(out) = Len(call.heap[call.tsin]) + 1
                 /\ Len(call.heap[call.ys]) = Len(out)
                 /\ IsPrefix(call.heap[call.tsin], out)
                 /\ call.kind = "_get_initial_dy" =>
                       /\ Len(out) = n - 1
                       /\ out[n - 1] = RAdd(times[n - 2],
                                            RMul(<<2, 1, 0>>, RSub(times[n - 1], times[n - 2])))
                       /\ Midpoint(out) = times[n - 1]

\* C21 witness: the sub-integration of the trapezoid rule has returned for
\* a caller whose last two steps are of different sizes.
C21_Witness ==
    /\ pc = "sub_returned" /\ call.kind = "_get_initial_dy" /\ call.steps = 1
    /\ LET times == call.before[1]
           n == Len(times)
       IN /\ n = 4
          /\ RSub(times[n], times[n - 1]) # RSub(times[n - 1], times[n - 2])
          /\ call.heap[1] = times
          /\ Midpoint(call.heap[call.ts]) = times[n - 1]

\* C22: in a pass of the main loop the callback runs right after a Newton
\* solve that converged, and only then, on the committed history and the
\* speculative pair, and nothing is estimated, rejected or committed before
\* it has run; the estimator works on the time the callback returned; a
\* committed entry is the pair the callback returned; a pass whose Newton
\* solve fails neither runs the callback nor the estimator.
C22_CallbackOrder ==
    [][/\ pc = "solved" =>
             /\ pc' = "adjusted"
             /\ <<new_t_np1', new_y_np1'>> \in
                    (IF actions_after_timestep
                     THEN CallbackResults(ts, t_np1, y_np1)
                     ELSE {<<t_np1, y_np1>>})
             /\ dt' = dt /\ ts' = ts /\ ys' = ys /\ nrejects' = nrejects
       /\ pc' = "adjusted" => pc = "solved"
       /\ (nrejects' # nrejects \/ nsteps' # nsteps) => pc = "adjusted"
       /\ nsteps' = nsteps + 1 =>
             ts' = Append(ts, new_t_np1) /\ ys' = Append(ys, new_y_np1)
       /\ (pc = "adjusted" /\ adaptive
               /\ lte_raises(time_adaptor, Last(ts), new_t_np1)) =>
             pc' = "raised" /\ exc' = "ZeroDivisionError"
       /\ (pc = "loop" /\ pc' # "solved") =>
             /\ new_t_np1' = new_t_np1 /\ new_y_np1' = new_y_np1
             /\ nrejects' = nrejects /\ nsteps' = nsteps
             /\ pc' \in {"loop", "raised", "returned"}]_vars

\* C22 witness: in an adaptive run a value the callback put in place of
\* the Newton result has been committed, after a rejected step and a
\* Newton failure.
C22_Witness ==
    /\ last = "commit" /\ actions_after_timestep /\ adaptive
    /\ nrejects >= 1 /\ nshrinks >= 1
    /\ Last(ys) = Rewritten(y_np1) /\ Last(ys) # y_np1
    /\ Last(ts) = new_t_np1

\* the number of trailing entries of the speculative history a residual
\* reads: bdf1_residual and imr_residual index [-2], bdf2_dydt [-3],
\* bdf3_dydt [-4]; the trapezoid rule reads [-3] in _get_initial_dy and in
\* calculate_new_dy_if_needed
ResidualDepth(residual) ==
    CASE residual \in {"bdf1_residual", "imr_residual"} -> 2
      [] residual = "bdf2_residual" -> 3
      [] residual = "bdf3_residual" -> 4
      [] residual = "TrapezoidRuleResidual" -> 3

\* the number of trailing entries the adaptor reads: general_time_adaptor
\* itself indexes [-2]; bdf2_mp_lte_estimate calls bdf2_dydt on ts[:-1],
\* which indexes [-3] of the committed history, tr_ab_lte_estimate indexes
\* [-3], ebdf3_lte_estimate indexes [-4] in ebdf3_step_wrapper and slices
\* the last four entries in interpolate_dyn.  The reads of the estimator of
\* 'imr w18' are set by the predictor points of the method dict
EstimatorDepth(lte_calculator) ==
    CASE lte_calculator = "bdf2_mp_lte_estimate" -> 4
      [] lte_calculator = "tr_ab_lte_estimate" -> 3
      [] lte_calculator = "ebdf3_lte_estimate" -> 4
      [] OTHER -> 2

\* ts + [t_np1], the history a residual or an adaptor of the main loop gets
Speculative(times) == Append(times, Propose(times, dt))

\* C23: at every step of the main loop the speculative history (the
\* committed points and the proposed one) is long enough for every index
\* the residual of the scheme reads and, for a scheme with an adaptor, for
\* every index its error estimator reads; for the trapezoid rule the slice
\* ts[:-2] the initial derivative starts from is not empty; the y history
\* is as long as the t history.
C23_HistorySufficient ==
    pc \in {"loop", "solved", "adjusted"} =>
        /\ Len(ys) = Len(ts)
        /\ Len(Speculative(ts)) >= ResidualDepth(scheme.residual)
        /\ adaptive => Len(Speculative(ts)) >= EstimatorDepth(time_adaptor)
        /\ trapezoid => AllButLastTwo(Speculative(ts)) # <<>>

\* C23 witness: the first error estimate of a run of 'bdf2 mp' is taken on
\* a history that is exactly as long as the deepest index the estimator
\* reads, right after the bootstrap.
C23_Witness ==
    /\ pc = "adjusted" /\ nsteps = 0
    /\ method = "bdf2 mp"
    /\ Len(ts) = scheme.n_start
    /\ Len(Speculative(ts)) = EstimatorDepth(time_adaptor)
====
